---- MODULE Spec2Model ----
(***************************************************************************)
(* Model of the SVD peripheral parser/encoder (src/svd/peripheral.rs) and  *)
(* of the name grammar validator (src/error.rs).                           *)
(*                                                                         *)
(* Conventions                                                             *)
(*   - a Rust String is a sequence of one-character strings;               *)
(*   - Option<T> is a sequence of length <= 1: None is << >>, Some(v) is   *)
(*     << v >>;                                                            *)
(*   - Result<T> is a record [ok, val, err]; an error is a record          *)
(*     [kind, elem, text, ctx] where ctx is the anyhow context chain,      *)
(*     outermost context first;                                            *)
(*   - an xmltree Element is a record [name, attributes, children, text];  *)
(*     attributes is a set of <<key, value>> pairs with unique keys.       *)
(*   - u32 values are kept below 2^31 (TLC's integers are 32-bit signed);  *)
(*     no operation of the model wraps.                                    *)
(***************************************************************************)
EXTENDS Integers, Sequences, FiniteSets

VARIABLES pc, name, nameResult, tree, parsed, per, elem

vars == <<pc, name, nameResult, tree, parsed, per, elem>>

---------------------------------------------------------------------------
(* Bounds of the checked inputs *)

MaxNameLen == 3

MaxChildren == 4

MaxInterrupts == 2

---------------------------------------------------------------------------
(* Option and Result *)

None == << >>

Some(v) == << v >>

IsSome(o) == o # << >>

Unwrap(o) == o[1]

NoValue == << >>

NoError == [kind |-> "", elem |-> << >>, text |-> << >>, ctx |-> << >>]

Ok(v) == [ok |-> TRUE, val |-> v, err |-> NoError]

\* An error of variant `kind`; `el` is the Element the variant carries (None when
\* it carries none) and `text` its String payload.
Err(kind, el, text) ==
    [ok |-> FALSE, val |-> NoValue,
     err |-> [kind |-> kind, elem |-> el, text |-> text, ctx |-> << >>]]

\* anyhow's Context::with_context: an Ok passes through, an Err gets one more
\* (outer) context and keeps its kind and payload.
with_context(r, c) ==
    IF r.ok THEN r ELSE [r EXCEPT !.err.ctx = << c >> \o @]

---------------------------------------------------------------------------
(* Characters *)

AsciiUpper ==
    {"A","B","C","D","E","F","G","H","I","J","K","L","M",
     "N","O","P","Q","R","S","T","U","V","W","X","Y","Z"}

AsciiLower ==
    {"a","b","c","d","e","f","g","h","i","j","k","l","m",
     "n","o","p","q","r","s","t","u","v","w","x","y","z"}

AsciiDigit == {"0","1","2","3","4","5","6","7","8","9"}

is_ascii_alphabetic(c) == c \in AsciiUpper \cup AsciiLower

is_ascii_alphanumeric(c) == c \in AsciiUpper \cup AsciiLower \cup AsciiDigit

---------------------------------------------------------------------------
(* src/error.rs: the name grammar *)

is_valid_name_AnyFirst(s) ==
    IF Len(s) > 0
    THEN \A i \in 1..Len(s) : is_ascii_alphanumeric(s[i]) \/ s[i] = "_"
    ELSE FALSE

is_valid_name(s) ==
    IF Len(s) > 0
    THEN IF ~(is_ascii_alphabetic(s[1]) \/ s[1] = "_")
         THEN FALSE
         ELSE \A i \in 2..Len(s) : is_ascii_alphanumeric(s[i]) \/ s[i] = "_"
    ELSE FALSE

check_name(s) ==
    IF is_valid_name(s) THEN Ok(<< >>) ELSE Err("NameError::Invalid", None, s)

---------------------------------------------------------------------------
(* Numeric literals *)

HexChars == <<"0","1","2","3","4","5","6","7","8","9","a","b","c","d","e","f">>

UpperHex == <<"A","B","C","D","E","F">>

\* char::to_ascii_lowercase on the characters a literal may hold
ToLower(c) ==
    IF \E i \in 1..6 : UpperHex[i] = c
    THEN HexChars[10 + (CHOOSE i \in 1..6 : UpperHex[i] = c)]
    ELSE c

IsDigitOf(c, base) == \E i \in 1..base : HexChars[i] = ToLower(c)

DigitOf(c) == (CHOOSE i \in 1..16 : HexChars[i] = ToLower(c)) - 1

RECURSIVE DigitsValue(_, _)
DigitsValue(ds, base) ==
    IF ds = << >> THEN 0
    ELSE DigitsValue(SubSeq(ds, 1, Len(ds) - 1), base) * base + DigitOf(ds[Len(ds)])

\* The digits of n in `base`, most significant first, without padding
RECURSIVE FormatRadix(_, _)
FormatRadix(n, base) ==
    IF n < base THEN << HexChars[n + 1] >>
    ELSE FormatRadix(n \div base, base) \o << HexChars[(n % base) + 1] >>

\* The schema's numeric literal grammar: decimal, 0x/0X hexadecimal, # binary.
parse_u32_text(s) ==
    LET body(k) == SubSeq(s, k + 1, Len(s))
        digits(ds, base) ==
            IF ds # << >> /\ \A i \in 1..Len(ds) : IsDigitOf(ds[i], base)
            THEN Ok(DigitsValue(ds, base))
            ELSE Err("ParseIntError", None, s)
    IN  IF Len(s) >= 2 /\ s[1] = "0" /\ s[2] \in {"x", "X"} THEN digits(body(2), 16)
        ELSE IF Len(s) >= 1 /\ s[1] = "#" THEN digits(body(1), 2)
        ELSE digits(s, 10)

---------------------------------------------------------------------------
(* Elements and the ElementExt helpers *)

Element(tag, attrs, children, text) ==
    [name |-> tag, attributes |-> attrs, children |-> children, text |-> text]

\* crate::new_element: a leaf with the given tag and text
new_element(tag, text) == Element(tag, {}, << >>, text)

\* HashMap::get on the attribute map
attributes_get(el, key) ==
    LET hits == {p \in el.attributes : p[1] = key}
    IN  IF hits = {} THEN None ELSE Some((CHOOSE p \in hits : TRUE)[2])

\* xmltree's Element::get_child: the first child with that tag
get_child(el, tag) ==
    LET idx == {i \in 1..Len(el.children) : el.children[i].name = tag}
    IN  IF idx = {} THEN None
        ELSE Some(el.children[CHOOSE i \in idx : \A j \in idx : i <= j])

get_text(el) ==
    IF IsSome(el.text) THEN Ok(Unwrap(el.text))
    ELSE Err("ParseError::EmptyTag", Some(el), el.name)

get_child_text_opt(el, tag) ==
    LET c == get_child(el, tag)
    IN  IF IsSome(c)
        THEN LET t == get_text(Unwrap(c)) IN IF t.ok THEN Ok(Some(t.val)) ELSE t
        ELSE Ok(None)

get_child_text(el, tag) ==
    LET t == get_child_text_opt(el, tag)
    IN  IF ~t.ok THEN t
        ELSE IF IsSome(t.val) THEN Ok(Unwrap(t.val))
        ELSE Err("ParseError::MissingTag", Some(el), tag)

get_child_elem(el, tag) ==
    LET c == get_child(el, tag)
    IN  IF IsSome(c) THEN Ok(Unwrap(c)) ELSE Err("ParseError::MissingTag", Some(el), tag)

u32_parse(el) ==
    LET t == get_text(el) IN IF t.ok THEN parse_u32_text(t.val) ELSE t

get_child_u32(el, tag) ==
    LET c == get_child_elem(el, tag) IN IF c.ok THEN u32_parse(c.val) ELSE c

\* The first failed Result of a sequence of Results (the order of the `?`s)
FirstErr(rs) ==
    LET bad == {i \in 1..Len(rs) : ~rs[i].ok}
    IN  IF bad = {} THEN None ELSE Some(rs[CHOOSE i \in bad : \A j \in bad : i <= j])

\* Iterator::collect into Result<Vec<_>, _>: the values, or the first error
collect(rs) ==
    LET e == FirstErr(rs)
    IN  IF IsSome(e) THEN Unwrap(e) ELSE Ok([i \in 1..Len(rs) |-> rs[i].val])

---------------------------------------------------------------------------
(* The nested entities of a peripheral *)

Interrupt_parse(el) ==
    IF el.name # "interrupt" THEN Err("ParseError::NotExpectedTag", Some(el), "interrupt")
    ELSE LET n == get_child_text(el, "name")
             d == get_child_text_opt(el, "description")
             v == get_child_u32(el, "value")
             e == FirstErr(<<n, d, v>>)
         IN  IF IsSome(e) THEN Unwrap(e)
             ELSE Ok([name |-> n.val, description |-> d.val, value |-> v.val])

Interrupt_encode(i) ==
    Ok(Element("interrupt", {},
               << new_element("name", Some(i.name)) >>
               \o (IF IsSome(i.description)
                   THEN << new_element("description", i.description) >> ELSE << >>)
               \o << new_element("value", Some(FormatRadix(i.value, 10))) >>,
               None))

AddressBlock_parse(el) ==
    LET o == get_child_u32(el, "offset")
        s == get_child_u32(el, "size")
        u == get_child_text(el, "usage")
        e == FirstErr(<<o, s, u>>)
    IN  IF IsSome(e) THEN Unwrap(e)
        ELSE Ok([offset |-> o.val, size |-> s.val, usage |-> u.val])

AddressBlock_encode(a) ==
    Ok(Element("addressBlock", {},
               << new_element("offset", Some(<<"0","x">> \o FormatRadix(a.offset, 16))),
                  new_element("size", Some(<<"0","x">> \o FormatRadix(a.size, 16))),
                  new_element("usage", Some(a.usage)) >>,
               None))

\* parse::optional::<T>(tag, tree), for T = AddressBlock and T = u32
optional_AddressBlock(tag, el) ==
    LET c == get_child(el, tag)
    IN  IF IsSome(c)
        THEN LET r == AddressBlock_parse(Unwrap(c)) IN IF r.ok THEN Ok(Some(r.val)) ELSE r
        ELSE Ok(None)

optional_u32(tag, el) ==
    LET c == get_child(el, tag)
    IN  IF IsSome(c)
        THEN LET r == u32_parse(Unwrap(c)) IN IF r.ok THEN Ok(Some(r.val)) ELSE r
        ELSE Ok(None)

AccessLiterals ==
    { <<"read-only">>, <<"write-only">>, <<"read-write">>, <<"writeOnce">>,
      <<"read-writeOnce">> }

optional_Access(tag, el) ==
    LET c == get_child(el, tag)
    IN  IF IsSome(c)
        THEN LET t == get_text(Unwrap(c))
             IN  IF ~t.ok THEN t
                 ELSE IF t.val \in AccessLiterals THEN Ok(Some(t.val))
                 ELSE Err("AccessTypeError::Unknown", c, t.val)
        ELSE Ok(None)

\* RegisterProperties::parse reads its children off the enclosing node
RegisterProperties_parse(el) ==
    LET s  == optional_u32("size", el)
        a  == optional_Access("access", el)
        p  == get_child_text_opt(el, "protection")
        rv == optional_u32("resetValue", el)
        rm == optional_u32("resetMask", el)
        e  == FirstErr(<<s, a, p, rv, rm>>)
    IN  IF IsSome(e) THEN Unwrap(e)
        ELSE Ok([size |-> s.val, access |-> a.val, protection |-> p.val,
                 reset_value |-> rv.val, reset_mask |-> rm.val])

HexElement(tag, o) ==
    IF IsSome(o) THEN << new_element(tag, Some(<<"0","x">> \o FormatRadix(Unwrap(o), 16))) >>
    ELSE << >>

TextElement(tag, o) == IF IsSome(o) THEN << new_element(tag, o) >> ELSE << >>

\* RegisterProperties::encode: the children of the present properties
RegisterProperties_encode(rp) ==
    Ok(HexElement("size", rp.size)
       \o TextElement("access", rp.access)
       \o TextElement("protection", rp.protection)
       \o HexElement("resetValue", rp.reset_value)
       \o HexElement("resetMask", rp.reset_mask))

\* RegisterCluster::parse dispatches on the tag alone
RegisterCluster_parse(el) ==
    IF el.name \in {"register", "cluster"}
    THEN LET n == get_child_text(el, "name")
         IN  IF n.ok THEN Ok([kind |-> el.name, name |-> n.val]) ELSE n
    ELSE Err("RegisterClusterError::Invalid", Some(el), el.name)

RegisterCluster_encode(rc) ==
    Ok(Element(rc.kind, {}, << new_element("name", Some(rc.name)) >>, None))

---------------------------------------------------------------------------
(* src/svd/peripheral.rs: Peripheral, its builder, parse and encode *)

\* PeripheralBuilder::default(): no slot set
PeripheralBuilder_default ==
    [name |-> None, version |-> None, display_name |-> None, group_name |-> None,
     description |-> None, base_address |-> None, address_block |-> None,
     interrupt |-> None, default_register_properties |-> None, registers |-> None,
     derived_from |-> None]

RegisterProperties_default ==
    [size |-> None, access |-> None, protection |-> None,
     reset_value |-> None, reset_mask |-> None]

\* PeripheralBuilder::build(): name and base_address have no default
PeripheralBuilder_build(b) ==
    IF ~IsSome(b.name) THEN Err("BuildError::Uninitialized", None, "name")
    ELSE IF ~IsSome(b.base_address)
    THEN Err("BuildError::Uninitialized", None, "base_address")
    ELSE Ok([name |-> Unwrap(b.name),
             version |-> IF IsSome(b.version) THEN Unwrap(b.version) ELSE None,
             display_name |-> IF IsSome(b.display_name) THEN Unwrap(b.display_name) ELSE None,
             group_name |-> IF IsSome(b.group_name) THEN Unwrap(b.group_name) ELSE None,
             description |-> IF IsSome(b.description) THEN Unwrap(b.description) ELSE None,
             base_address |-> Unwrap(b.base_address),
             address_block |-> IF IsSome(b.address_block) THEN Unwrap(b.address_block) ELSE None,
             interrupt |-> IF IsSome(b.interrupt) THEN Unwrap(b.interrupt) ELSE << >>,
             default_register_properties |->
                 IF IsSome(b.default_register_properties)
                 THEN Unwrap(b.default_register_properties)
                 ELSE RegisterProperties_default,
             registers |-> IF IsSome(b.registers) THEN Unwrap(b.registers) ELSE None,
             derived_from |-> IF IsSome(b.derived_from) THEN Unwrap(b.derived_from) ELSE None])

\* the argument of .interrupt(..): the children tagged "interrupt", numbered from 0
\* among themselves, each parsed with its position as context
parse_interrupts_AllChildren(el) ==
    LET idx == {i \in 1..Len(el.children) : el.children[i].name = "interrupt"}
        pos(k) == CHOOSE i \in idx : Cardinality({j \in idx : j < i}) = k - 1
    IN  collect([k \in 1..Cardinality(idx) |->
                    with_context(Interrupt_parse(el.children[pos(k)]),
                                 <<"Parsing interrupt #", pos(k) - 1>>)])

parse_interrupts(el) ==
    LET is == SelectSeq(el.children, LAMBDA t : t.name = "interrupt")
    IN  collect([k \in 1..Len(is) |->
                    with_context(Interrupt_parse(is[k]), <<"Parsing interrupt #", k - 1>>)])

\* the argument of .registers(..)
parse_registers(el) ==
    LET r == get_child(el, "registers")
    IN  IF IsSome(r)
        THEN LET rs == collect([k \in 1..Len(Unwrap(r).children) |->
                                   RegisterCluster_parse(Unwrap(r).children[k])])
             IN  IF rs.ok THEN Ok(Some(rs.val)) ELSE rs
        ELSE Ok(None)

\* the argument of .derived_from(..)
parse_derived_from_Child(el) ==
    LET c == get_child(el, "derivedFrom")
    IN  IF IsSome(c) THEN Unwrap(c).text ELSE attributes_get(el, "derivedFrom")

parse_derived_from(el) == attributes_get(el, "derivedFrom")

_parse(el, nm) ==
    LET version      == get_child_text_opt(el, "version")
        display_name == get_child_text_opt(el, "displayName")
        group_name   == get_child_text_opt(el, "groupName")
        description  == get_child_text_opt(el, "description")
        base_address == get_child_u32(el, "baseAddress")
        address_block == optional_AddressBlock("addressBlock", el)
        interrupt    == parse_interrupts(el)
        drp          == RegisterProperties_parse(el)
        registers    == parse_registers(el)
        e == FirstErr(<<version, display_name, group_name, description, base_address,
                        address_block, interrupt, drp, registers>>)
    IN  IF IsSome(e) THEN Unwrap(e)
        ELSE PeripheralBuilder_build(
                 [PeripheralBuilder_default EXCEPT
                    !.name = Some(nm),
                    !.version = Some(version.val),
                    !.display_name = Some(display_name.val),
                    !.group_name = Some(group_name.val),
                    !.description = Some(description.val),
                    !.base_address = Some(base_address.val),
                    !.address_block = Some(address_block.val),
                    !.interrupt = Some(interrupt.val),
                    !.default_register_properties = Some(drp.val),
                    !.registers = Some(registers.val),
                    !.derived_from = Some(parse_derived_from(el))])

parse_NameDefaulted(el) ==
    IF el.name # "peripheral"
    THEN Err("ParseError::NotExpectedTag", Some(el), "peripheral")
    ELSE LET nm == get_child_text_opt(el, "name")
         IN  IF ~nm.ok THEN nm
             ELSE LET n == IF IsSome(nm.val) THEN Unwrap(nm.val) ELSE << >>
                  IN  with_context(_parse(el, n), <<"In peripheral", n>>)

parse(el) ==
    IF el.name # "peripheral"
    THEN Err("ParseError::NotExpectedTag", Some(el), "peripheral")
    ELSE LET nm == get_child_text(el, "name")
         IN  IF ~nm.ok THEN nm
             ELSE with_context(_parse(el, nm.val), <<"In peripheral", nm.val>>)

\* format!("0x{:.08x}", base_address): `.08` is a precision, which integer
\* formatting ignores, so the digits are not padded
format_base_address(v) == <<"0", "x">> \o FormatRadix(v, 16)

\* the children pushed before baseAddress: name, then the present texts
encode_texts_GroupAsDisplay(p) ==
    << new_element("name", Some(p.name)) >>
    \o TextElement("version", p.version)
    \o TextElement("displayName", p.display_name)
    \o TextElement("displayName", p.group_name)
    \o TextElement("description", p.description)

encode_texts(p) ==
    << new_element("name", Some(p.name)) >>
    \o TextElement("version", p.version)
    \o TextElement("displayName", p.display_name)
    \o TextElement("groupName", p.group_name)
    \o TextElement("description", p.description)

encode_base_address(p) ==
    << new_element("baseAddress", Some(format_base_address(p.base_address))) >>

\* the <registers> child, given the encoded register clusters
encode_registers_SkipEmpty(p, rcs) ==
    IF IsSome(p.registers) /\ rcs # << >>
    THEN << Element("registers", {}, rcs, None) >> ELSE << >>

encode_registers(p, rcs) ==
    IF IsSome(p.registers) THEN << Element("registers", {}, rcs, None) >> ELSE << >>

\* the attribute map after the derivedFrom insert
encode_attributes(p) ==
    IF IsSome(p.derived_from) THEN {<<"derivedFrom", Unwrap(p.derived_from)>>} ELSE {}

\* the children in the order the code appends them
encode_children_DeclarationOrder(p, drp, ab, its, rcs) ==
    encode_texts(p)
    \o encode_base_address(p)
    \o (IF IsSome(p.address_block) THEN << ab >> ELSE << >>)
    \o its
    \o drp
    \o encode_registers(p, rcs)

encode_children(p, drp, ab, its, rcs) ==
    encode_texts(p)
    \o encode_base_address(p)
    \o drp
    \o (IF IsSome(p.address_block) THEN << ab >> ELSE << >>)
    \o its
    \o encode_registers(p, rcs)

encode(p) ==
    LET drp == RegisterProperties_encode(p.default_register_properties)
        ab  == IF IsSome(p.address_block)
               THEN AddressBlock_encode(Unwrap(p.address_block)) ELSE Ok(NoValue)
        its == collect([k \in 1..Len(p.interrupt) |-> Interrupt_encode(p.interrupt[k])])
        rcs == IF IsSome(p.registers)
               THEN collect([k \in 1..Len(Unwrap(p.registers)) |->
                                RegisterCluster_encode(Unwrap(p.registers)[k])])
               ELSE Ok(NoValue)
        e   == FirstErr(<<drp, ab, its, rcs>>)
    IN  IF IsSome(e) THEN Unwrap(e)
        ELSE Ok(Element("peripheral", encode_attributes(p),
                        encode_children(p, drp.val, ab.val, its.val, rcs.val), None))

---------------------------------------------------------------------------
(* The checked inputs *)

\* the characters names are drawn from: letters, a digit, the underscore, two
\* punctuation characters and a non-ASCII letter (U+00E9, which
\* char::is_alphabetic accepts and char::is_ascii_alphabetic does not)
NameChars == {"A", "z", "_", "1", "-", " ", "U+00E9"}

SeqsUpTo(S, n) == UNION {[1..k -> S] : k \in 0..n}

Names == SeqsUpTo(NameChars, MaxNameLen)

GoodName == <<"A", "1">>

BadName == <<"1", "A">>

IntOk(c) ==
    Element("interrupt", {},
            << new_element("name", Some(<<"I", c>>)), new_element("value", Some(<<c>>)) >>,
            None)

\* an interrupt without its <name>
IntBad == Element("interrupt", {}, << new_element("value", Some(<<"3">>)) >>, None)

AddressBlockOk ==
    Element("addressBlock", {},
            << new_element("offset", Some(<<"0">>)),
               new_element("size", Some(<<"0","x","4","0","0">>)),
               new_element("usage", Some(<<"registers">>)) >>,
            None)

\* the children a <peripheral> node is assembled from
ChildAtoms ==
    { new_element("name", Some(GoodName)),
      new_element("name", Some(BadName)),
      new_element("baseAddress", Some(<<"0","x","1","0">>)),
      new_element("version", None),
      new_element("size", Some(<<"3","2">>)),
      new_element("derivedFrom", Some(<<"X">>)),
      IntOk("1"),
      IntBad,
      AddressBlockOk,
      Element("registers", {}, << >>, None) }

TreeAttributes == { {}, {<<"derivedFrom", <<"O","t","h","e","r">>>>} }

Trees ==
    { Element("peripheral", a, cs, None) :
        a \in TreeAttributes, cs \in SeqsUpTo(ChildAtoms, MaxChildren) }
    \cup { Element("register", {}, << new_element("name", Some(GoodName)) >>, None) }

InterruptValues ==
    { [name |-> <<"I", "1">>, description |-> None, value |-> 1],
      [name |-> <<"I", "2">>, description |-> Some(<<"d">>), value |-> 2] }

AddressBlockValue == [offset |-> 0, size |-> 1024, usage |-> <<"registers">>]

\* the Peripheral values handed to encode
Peripherals ==
    [ name : {GoodName, << >>},
      version : {None, Some(<<"v">>)},
      display_name : {None, Some(<<"d","n">>)},
      group_name : {None, Some(<<"g">>)},
      description : {None, Some(<< >>)},
      base_address : {16, 1073741824, 2147483647},
      address_block : {None, Some(AddressBlockValue)},
      interrupt : SeqsUpTo(InterruptValues, MaxInterrupts),
      default_register_properties :
          {RegisterProperties_default,
           [RegisterProperties_default EXCEPT !.size = Some(32),
                                              !.access = Some(<<"read-only">>)]},
      registers : {None, Some(<< >>), Some(<< [kind |-> "register", name |-> <<"R">>] >>)},
      derived_from : {None, Some(<<"O","t","h","e","r">>)} ]

---------------------------------------------------------------------------
(* The operations, applied to the drawn input *)

\* a string handed to check_name
InitName ==
    /\ pc = "name"
    /\ name \in Names
    /\ nameResult = None /\ tree = None /\ parsed = None /\ per = None /\ elem = None

\* a node handed to Peripheral::parse
InitParse ==
    /\ pc = "node"
    /\ tree \in {Some(t) : t \in Trees}
    /\ name = << >> /\ nameResult = None /\ parsed = None /\ per = None /\ elem = None

\* a Peripheral handed to Peripheral::encode
InitEncode ==
    /\ pc = "peripheral"
    /\ per \in {Some(p) : p \in Peripherals}
    /\ name = << >> /\ nameResult = None /\ tree = None /\ parsed = None /\ elem = None

\* check_name(name)
CheckName ==
    /\ pc = "name"
    /\ nameResult' = Some(check_name(name))
    /\ pc' = "checked"
    /\ UNCHANGED <<name, tree, parsed, per, elem>>

\* Peripheral::parse(tree)
Parse ==
    /\ pc = "node"
    /\ parsed' = Some(parse(Unwrap(tree)))
    /\ pc' = "parsed"
    /\ UNCHANGED <<name, nameResult, tree, per, elem>>

\* encode of the Peripheral that parse returned
EncodeParsed ==
    /\ pc = "parsed"
    /\ Unwrap(parsed).ok
    /\ per' = Some(Unwrap(parsed).val)
    /\ elem' = Some(encode(Unwrap(parsed).val))
    /\ pc' = "reencoded"
    /\ UNCHANGED <<name, nameResult, tree, parsed>>

\* Peripheral::encode(per)
Encode ==
    /\ pc = "peripheral"
    /\ elem' = Some(encode(Unwrap(per)))
    /\ pc' = "encoded"
    /\ UNCHANGED <<name, nameResult, tree, parsed, per>>

\* Peripheral::parse of the node that encode returned
ParseEncoded ==
    /\ pc = "encoded"
    /\ Unwrap(elem).ok
    /\ tree' = Some(Unwrap(elem).val)
    /\ parsed' = Some(parse(Unwrap(elem).val))
    /\ pc' = "reparsed"
    /\ UNCHANGED <<name, nameResult, per, elem>>

NextName == CheckName

NextParse == Parse \/ EncodeParsed

NextEncode == Encode \/ ParseEncoded

SpecName == InitName /\ [][NextName]_vars

SpecParse == InitParse /\ [][NextParse]_vars

SpecEncode == InitEncode /\ [][NextEncode]_vars

\* both directions: nodes parsed then encoded, Peripherals encoded then parsed
InitCodec == InitParse \/ InitEncode

NextCodec == Parse \/ EncodeParsed \/ Encode \/ ParseEncoded

SpecCodec == InitCodec /\ [][NextCodec]_vars

---------------------------------------------------------------------------
(* Properties *)

Tags(el) == [i \in 1..Len(el.children) |-> el.children[i].name]

HasChild(el, tag) == \E i \in 1..Len(el.children) : el.children[i].name = tag

ChildrenTagged(el, tag) == SelectSeq(el.children, LAMBDA c : c.name = tag)

\* the identifier grammar, as the schema states it
Identifier(s) ==
    /\ s # << >>
    /\ s[1] \in AsciiUpper \cup AsciiLower \cup {"_"}
    /\ \A i \in 2..Len(s) : s[i] \in AsciiUpper \cup AsciiLower \cup AsciiDigit \cup {"_"}

\* C1: check_name(s) is Ok exactly when s is an identifier (non-empty, first
\* character an ASCII letter or '_', the others ASCII letters, digits or '_');
\* otherwise it is the error NameError::Invalid carrying s itself.
C1_CheckNameGrammar ==
    pc = "checked" =>
        LET r == Unwrap(nameResult)
        IN  /\ r.ok <=> Identifier(name)
            /\ ~r.ok => /\ r.err.kind = "NameError::Invalid"
                        /\ r.err.text = name
                        /\ r.err.ctx = << >>

\* a name with a leading digit was checked and rejected
C1_Witness ==
    /\ pc = "checked"
    /\ Len(name) >= 2 /\ name[1] = "1" /\ name[2] = "A"
    /\ ~Unwrap(nameResult).ok

\* C2: every Peripheral that parse returns has a name satisfying the
\* identifier grammar.
C2_ParsedNameIsIdentifier ==
    (pc = "parsed" /\ Unwrap(parsed).ok) => Identifier(Unwrap(parsed).val.name)

\* C3: a node with the derivedFrom attribute and no baseAddress child, which
\* is acceptable once a baseAddress is supplied, is accepted by parse.
C3_DerivedWithoutBaseAddressAccepted ==
    pc = "parsed" =>
        LET t == Unwrap(tree)
            withBase == [t EXCEPT !.children =
                            @ \o << new_element("baseAddress", Some(<<"0","x","1","0">>)) >>]
        IN  (/\ IsSome(attributes_get(t, "derivedFrom"))
             /\ ~HasChild(t, "baseAddress")
             /\ parse(withBase).ok)
            => Unwrap(parsed).ok

\* C4: parse yields registers = None when the node has no <registers> child
\* and Some(empty) when the <registers> child has no children; encode emits
\* no <registers> child for None and exactly one, childless, for Some(empty);
\* parsing the encoded node gives registers the same None/Some shape.
C4_RegistersPresence ==
    /\ (pc \in {"parsed", "reencoded", "reparsed"} /\ Unwrap(parsed).ok) =>
          LET t == Unwrap(tree)
              r == Unwrap(parsed).val.registers
              rs == ChildrenTagged(t, "registers")
          IN  /\ rs = << >> => r = None
              /\ (rs # << >> /\ rs[1].children = << >>) => r = Some(<< >>)
    /\ (pc \in {"encoded", "reencoded"} /\ Unwrap(elem).ok) =>
          LET p == Unwrap(per)
              e == Unwrap(elem).val
              rs == ChildrenTagged(e, "registers")
              back == parse(e)
          IN  /\ p.registers = None => rs = << >>
              /\ p.registers = Some(<< >>) => (Len(rs) = 1 /\ rs[1].children = << >>)
              /\ back.ok
              /\ IsSome(back.val.registers) <=> IsSome(p.registers)

\* a Peripheral parsed with registers = Some(empty) was encoded
C4_Witness ==
    /\ pc = "reencoded"
    /\ Unwrap(per).registers = Some(<< >>)
    /\ Unwrap(elem).ok

\* C5: parse on a node tagged "peripheral" with no <name> child fails with
\* ParseError::MissingTag naming "name", whatever the other children are.
C5_MissingName ==
    (pc = "parsed" /\ Unwrap(tree).name = "peripheral" /\ ~HasChild(Unwrap(tree), "name")) =>
        LET r == Unwrap(parsed)
        IN  /\ ~r.ok
            /\ r.err.kind = "ParseError::MissingTag"
            /\ r.err.text = "name"

\* a nameless node with a base address and more was parsed
C5_Witness ==
    /\ pc = "parsed"
    /\ Unwrap(tree).name = "peripheral"
    /\ ~HasChild(Unwrap(tree), "name")
    /\ HasChild(Unwrap(tree), "baseAddress")
    /\ Len(Unwrap(tree).children) >= 2

\* C6: for a Peripheral whose encode succeeds, parsing the encoded node
\* succeeds and gives back the same name, version, display_name, group_name,
\* description, base_address, interrupts (count and order), None/Some shape of
\* address_block and registers, and derived_from.
C6_ParseEncodeRoundTrip ==
    /\ (pc = "encoded" /\ Unwrap(elem).ok) => parse(Unwrap(elem).val).ok
    /\ pc = "reparsed" =>
          LET p == Unwrap(per)
              r == Unwrap(parsed)
              q == r.val
          IN  /\ r.ok
              /\ q.name = p.name
              /\ q.version = p.version
              /\ q.display_name = p.display_name
              /\ q.group_name = p.group_name
              /\ q.description = p.description
              /\ q.base_address = p.base_address
              /\ Len(q.interrupt) = Len(p.interrupt)
              /\ \A i \in 1..Len(p.interrupt) : q.interrupt[i].name = p.interrupt[i].name
              /\ IsSome(q.address_block) <=> IsSome(p.address_block)
              /\ IsSome(q.registers) <=> IsSome(p.registers)
              /\ q.derived_from = p.derived_from

\* a Peripheral with a group name and two different interrupts made the round trip
C6_Witness ==
    /\ pc = "reparsed"
    /\ IsSome(Unwrap(per).group_name)
    /\ ~IsSome(Unwrap(per).display_name)
    /\ Len(Unwrap(per).interrupt) >= 2
    /\ Unwrap(per).interrupt[1] # Unwrap(per).interrupt[2]

OptTag(o, tag) == IF IsSome(o) THEN << tag >> ELSE << >>

TextTags(p) ==
    <<"name">> \o OptTag(p.version, "version") \o OptTag(p.display_name, "displayName")
    \o OptTag(p.group_name, "groupName") \o OptTag(p.description, "description")
    \o <<"baseAddress">>

PropertyTags(p) ==
    LET rp == p.default_register_properties
    IN  OptTag(rp.size, "size") \o OptTag(rp.access, "access")
        \o OptTag(rp.protection, "protection") \o OptTag(rp.reset_value, "resetValue")
        \o OptTag(rp.reset_mask, "resetMask")

InterruptTags(p) == [i \in 1..Len(p.interrupt) |-> "interrupt"]

\* the interrupt children of the encoded node are the interrupts, in sequence order
InterruptsInOrder(p, e) ==
    LET is == ChildrenTagged(e, "interrupt")
    IN  /\ Len(is) = Len(p.interrupt)
        /\ \A i \in 1..Len(is) : get_child_text(is[i], "name") = Ok(p.interrupt[i].name)

\* C7 as stated: the children of the encoded node follow the declaration order
\* of the Peripheral fields, with the default register properties after the
\* interrupts.
C7_DeclarationOrder ==
    (pc \in {"encoded", "reencoded"} /\ Unwrap(elem).ok) =>
        LET p == Unwrap(per)
            e == Unwrap(elem).val
        IN  /\ Tags(e) = TextTags(p) \o OptTag(p.address_block, "addressBlock")
                         \o InterruptTags(p) \o PropertyTags(p)
                         \o OptTag(p.registers, "registers")
            /\ InterruptsInOrder(p, e)

\* C7 (amended): the order of the children of the encoded node depends only on
\* which fields are present and is: name, version, displayName, groupName,
\* description, baseAddress, the default register-property elements,
\* addressBlock, the interrupt elements in sequence order, registers; absent
\* optional fields contribute no child.
C7_EncodeOrder ==
    (pc \in {"encoded", "reencoded"} /\ Unwrap(elem).ok) =>
        LET p == Unwrap(per)
            e == Unwrap(elem).val
        IN  /\ Tags(e) = TextTags(p) \o PropertyTags(p)
                         \o OptTag(p.address_block, "addressBlock")
                         \o InterruptTags(p) \o OptTag(p.registers, "registers")
            /\ InterruptsInOrder(p, e)

\* a Peripheral with register properties, an address block, two interrupts
\* and registers was encoded
C7_Witness ==
    /\ pc = "encoded"
    /\ Unwrap(elem).ok
    /\ IsSome(Unwrap(per).default_register_properties.size)
    /\ IsSome(Unwrap(per).address_block)
    /\ Len(Unwrap(per).interrupt) >= 2
    /\ Unwrap(per).interrupt[1] # Unwrap(per).interrupt[2]
    /\ IsSome(Unwrap(per).registers)
    /\ ~IsSome(Unwrap(per).version)

\* C8: the baseAddress text of the encoded node is "0x" followed by exactly 8
\* lowercase hexadecimal digits whose value is base_address.
C8_BaseAddressEightDigits ==
    (pc = "encoded" /\ Unwrap(elem).ok) =>
        LET c == get_child(Unwrap(elem).val, "baseAddress")
            t == Unwrap(Unwrap(c).text)
        IN  /\ IsSome(c)
            /\ Len(t) = 10
            /\ t[1] = "0" /\ t[2] = "x"
            /\ \A i \in 3..10 : \E k \in 1..16 : HexChars[k] = t[i]
            /\ DigitsValue(SubSeq(t, 3, 10), 16) = Unwrap(per).base_address

\* C9: parse returns derived_from = the derivedFrom attribute (None when it is
\* absent), nothing else in the result depends on the attribute, a derivedFrom
\* child element is not the reference; encode writes derived_from as the
\* derivedFrom attribute and as no child.
C9_DerivedFromDeferred ==
    /\ pc \in {"parsed", "reencoded"} =>
          LET t == Unwrap(tree)
              r == Unwrap(parsed)
              bare == parse([t EXCEPT !.attributes = {}])
          IN  /\ r.ok <=> bare.ok
              /\ r.ok => /\ r.val.derived_from = attributes_get(t, "derivedFrom")
                         /\ [r.val EXCEPT !.derived_from = None] = bare.val
    /\ (pc = "reencoded" /\ Unwrap(elem).ok) =>
          LET p == Unwrap(per)
              e == Unwrap(elem).val
          IN  /\ attributes_get(e, "derivedFrom") = p.derived_from
              /\ ~HasChild(e, "derivedFrom")

\* a node with both the attribute and a derivedFrom child was parsed, and the
\* result encoded
C9_Witness ==
    /\ pc = "reencoded"
    /\ HasChild(Unwrap(tree), "derivedFrom")
    /\ IsSome(attributes_get(Unwrap(tree), "derivedFrom"))
    /\ IsSome(Unwrap(per).derived_from)

\* the fields that _parse reads before the interrupts are all readable
BeforeInterruptsOk(t) ==
    /\ get_child_text_opt(t, "version").ok
    /\ get_child_text_opt(t, "displayName").ok
    /\ get_child_text_opt(t, "groupName").ok
    /\ get_child_text_opt(t, "description").ok
    /\ get_child_u32(t, "baseAddress").ok
    /\ optional_AddressBlock("addressBlock", t).ok

FailingInterrupts(t) ==
    LET is == ChildrenTagged(t, "interrupt")
    IN  {k \in 1..Len(is) : ~Interrupt_parse(is[k]).ok}

FirstFailingInterrupt(t) ==
    CHOOSE k \in FailingInterrupts(t) : \A j \in FailingInterrupts(t) : k <= j

\* C10: when an interrupt child fails to parse, parse returns no Peripheral;
\* when the interrupts are reached, the error is that of the first failing
\* interrupt child, its kind unchanged, with the context "Parsing interrupt #N"
\* (N its zero-based position among the children tagged "interrupt") inside
\* the context "In peripheral `<name>`".
C10_InterruptErrorContext ==
    (pc = "parsed" /\ FailingInterrupts(Unwrap(tree)) # {}) =>
        LET t == Unwrap(tree)
            r == Unwrap(parsed)
            k == FirstFailingInterrupt(t)
            own == Interrupt_parse(ChildrenTagged(t, "interrupt")[k]).err
            nm == get_child_text(t, "name")
        IN  /\ ~r.ok
            /\ (t.name = "peripheral" /\ nm.ok /\ BeforeInterruptsOk(t)) =>
                  /\ r.err.kind = own.kind
                  /\ r.err.elem = own.elem
                  /\ r.err.text = own.text
                  /\ r.err.ctx = << <<"In peripheral", nm.val>>,
                                    <<"Parsing interrupt #", k - 1>> >> \o own.ctx

\* the second interrupt child of a node failed, after a first that parsed
C10_Witness ==
    /\ pc = "parsed"
    /\ FailingInterrupts(Unwrap(tree)) # {}
    /\ FirstFailingInterrupt(Unwrap(tree)) = 2
    /\ get_child_text(Unwrap(tree), "name").ok
    /\ BeforeInterruptsOk(Unwrap(tree))

====
